---- MODULE Spec2Model ----
(***************************************************************************)
(* A model of the bump allocator of arena/src/lib.rs: Arena::with, the    *)
(* Allocator implementation for &Arena (allocate, deallocate) and the     *)
(* ArenaData it mutates.  Offsets are byte offsets into the storage;      *)
(* addresses are base_address + offset.                                    *)
(***************************************************************************)
EXTENDS Integers, Sequences, FiniteSets, TLC

\* ---- bounds of the model ------------------------------------------------
\* largest region (bytes) handed to Arena::with
MaxBytes == 4
\* base addresses of the storage range over 1..MaxBase
MaxBase == 4
\* alignments are 2^0 .. 2^MaxAlignLog
MaxAlignLog == 2
\* number of successful allocations remembered per region
MaxAllocs == 2
\* width of usize in the model (scaled down from 64)
WordBits == 8

RECURSIVE Pow2(_)
Pow2(k) == IF k = 0 THEN 1 ELSE 2 * Pow2(k - 1)

Word == Pow2(WordBits)

Aligns == {Pow2(k) : k \in 0..MaxAlignLog}
Sizes == 0..(MaxBytes + 1)
Capacities == 0..MaxBytes
Bases == 1..MaxBase

\* ---- usize arithmetic of line 64 ----------------------------------------
RECURSIVE BitAnd(_, _)
BitAnd(a, b) ==
    IF a = 0 \/ b = 0 THEN 0
    ELSE (a % 2) * (b % 2) + 2 * BitAnd(a \div 2, b \div 2)

\* !x on usize
BitNot(x) == (Word - 1) - x

\* let aligned = (base + (alignment - 1)) & (!alignment + 1);
AlignUp(base, alignment) ==
    BitAnd((base + (alignment - 1)) % Word, (BitNot(alignment) + 1) % Word)

\* the addresses a base address can take, and AlignUp tabulated over them
Addresses == 0..(MaxBase + Pow2(MaxAlignLog))
Aligned == [base \in Addresses, alignment \in Aligns |-> AlignUp(base, alignment)]

\* let alignment = aligned - base;
Padding(base, alignment) == Aligned[base, alignment] - base

\* let total_size = alignment + layout.size();
TotalSizeNoPadding(padding, size) == size
TotalSize(padding, size) == padding + size

\* let space = data.storage.len() - current_offset;
SpaceIgnoringOffset(len, current_offset) == len
Space(len, current_offset) == len - current_offset

\* if total_size > space { return Err(AllocError) }
OutOfSpaceOffByOne(total_size, space) == total_size > space + 1
OutOfSpace(total_size, space) == total_size > space

\* data.offset += total_size;
BumpAssign(offset_, total_size) == total_size
Bump(offset_, total_size) == offset_ + total_size

\* &mut data.storage[from..to] panics when from > to or to > len
SlicePanics(from, to, len) == from > to \/ to > len

\* The whole of allocate: the new cursor, the outcome and the returned
\* slice (start offset and length) for a request (size, align).
allocateBumpFirst(len, base, offset_, size, align) ==
    LET padding == Padding(base, align)
        total_size == TotalSize(padding, size)
        current_offset == offset_
        space == Space(len, current_offset)
        from == current_offset + padding
        to == size
    IN  IF OutOfSpace(total_size, space)
        THEN [offset |-> Bump(current_offset, total_size), outcome |-> "Err",
              start |-> 0, len |-> 0]
        ELSE IF SlicePanics(from, to, len)
        THEN [offset |-> Bump(current_offset, total_size), outcome |-> "Panic",
              start |-> 0, len |-> 0]
        ELSE [offset |-> Bump(current_offset, total_size), outcome |-> "Ok",
              start |-> from, len |-> to - from]

allocateUnchecked(len, base, offset_, size, align) ==
    LET padding == Padding(base, align)
        total_size == TotalSize(padding, size)
        current_offset == offset_
        from == current_offset + padding
        to == size
    IN  IF SlicePanics(from, to, len)
        THEN [offset |-> Bump(current_offset, total_size), outcome |-> "Panic",
              start |-> 0, len |-> 0]
        ELSE [offset |-> Bump(current_offset, total_size), outcome |-> "Ok",
              start |-> from, len |-> to - from]

allocate(len, base, offset_, size, align) ==
    LET padding == Padding(base, align)
        total_size == TotalSize(padding, size)
        current_offset == offset_
        space == Space(len, current_offset)
        from == current_offset + padding
        to == size
    IN  IF OutOfSpace(total_size, space)
        THEN [offset |-> current_offset, outcome |-> "Err",
              start |-> 0, len |-> 0]
        ELSE IF SlicePanics(from, to, len)
        THEN [offset |-> Bump(current_offset, total_size), outcome |-> "Panic",
              start |-> 0, len |-> 0]
        ELSE [offset |-> Bump(current_offset, total_size), outcome |-> "Ok",
              start |-> from, len |-> to - from]

\* ---- state ----------------------------------------------------------------
VARIABLES
    phase,          \* "idle" | "body" | "panicked" | "returned" | "unwound"
    storage,        \* ArenaData.storage: the bytes of the region
    base_address,   \* ArenaData.base_address
    offset,         \* ArenaData.offset
    allocs,         \* the successful allocations so far, in order
    last,           \* the last call made and its outcome
    storage_live,   \* the Vec behind storage exists (not yet dropped)
    body_calls,     \* number of times Arena::with has invoked k
    body_ret,       \* the value k returned
    result          \* the value Arena::with returned

vars == <<phase, storage, base_address, offset, allocs, last,
          storage_live, body_calls, body_ret, result>>

\* the values a body may return
Values == {"r1", "r2"}
NoValue == "none"

NoCall == [op |-> "none", size |-> 0, align |-> 1, pre |-> 0, outcome |-> "none"]

Init ==
    /\ phase = "idle"
    /\ storage = <<>>
    /\ base_address = 0
    /\ offset = 0
    /\ allocs = <<>>
    /\ last = NoCall
    /\ storage_live = FALSE
    /\ body_calls = 0
    /\ body_ret = NoValue
    /\ result = NoValue

\* Arena::with(bytes, k) up to the call of k
With(bytes) ==
    /\ phase = "idle"
    /\ storage' = [i \in 1..bytes |-> 0]
    /\ storage_live' = TRUE
    /\ allocs' = <<>>
    /\ UNCHANGED <<body_ret, result>>
    /\ IF bytes = 0
       THEN \* addr_of!(storage[0]) indexes an empty Vec
            /\ phase' = "panicked"
            /\ body_calls' = body_calls
            /\ last' = [op |-> "with", size |-> bytes, align |-> 1, pre |-> 0,
                        outcome |-> "Panic"]
            /\ UNCHANGED <<base_address, offset>>
       ELSE /\ \E b \in Bases : base_address' = b
            /\ offset' = 0
            /\ phase' = "body"
            /\ body_calls' = body_calls + 1
            /\ last' = [op |-> "with", size |-> bytes, align |-> 1, pre |-> 0,
                        outcome |-> "Ok"]

AllocateRebasing(size, align) ==
    /\ phase = "body"
    /\ LET r == allocate(Len(storage), base_address, offset, size, align)
       IN  /\ r.outcome = "Ok" => Len(allocs) < MaxAllocs
           /\ offset' = r.offset
           /\ last' = [op |-> "allocate", size |-> size, align |-> align,
                       pre |-> offset, outcome |-> r.outcome]
           /\ allocs' = IF r.outcome = "Ok"
                        THEN Append(allocs, [start |-> r.start, len |-> r.len,
                                             size |-> size, align |-> align])
                        ELSE allocs
           /\ phase' = IF r.outcome = "Panic" THEN "panicked" ELSE phase
    /\ base_address' = AlignUp(base_address, align)
    /\ UNCHANGED storage
    /\ UNCHANGED <<storage_live, body_calls, body_ret, result>>

\* <&Arena as Allocator>::allocate(layout), called inside the body
Allocate(size, align) ==
    /\ phase = "body"
    /\ LET r == allocate(Len(storage), base_address, offset, size, align)
       IN  /\ r.outcome = "Ok" => Len(allocs) < MaxAllocs
           /\ offset' = r.offset
           /\ last' = [op |-> "allocate", size |-> size, align |-> align,
                       pre |-> offset, outcome |-> r.outcome]
           /\ allocs' = IF r.outcome = "Ok"
                        THEN Append(allocs, [start |-> r.start, len |-> r.len,
                                             size |-> size, align |-> align])
                        ELSE allocs
           /\ phase' = IF r.outcome = "Panic" THEN "panicked" ELSE phase
    /\ UNCHANGED <<storage, base_address>>
    /\ UNCHANGED <<storage_live, body_calls, body_ret, result>>

DeallocateReclaim(ptr, size, align) ==
    /\ phase = "body"
    /\ last' = [op |-> "deallocate", size |-> 0, align |-> 1,
                pre |-> offset, outcome |-> "Ok"]
    /\ offset' = IF offset >= size THEN offset - size ELSE 0
    /\ UNCHANGED <<phase, storage, base_address, allocs>>
    /\ UNCHANGED <<storage_live, body_calls, body_ret, result>>

DeallocateRewind(ptr, size, align) ==
    /\ phase = "body"
    /\ last' = [op |-> "deallocate", size |-> 0, align |-> 1,
                pre |-> offset, outcome |-> "Ok"]
    /\ offset' = IF ptr <= offset THEN ptr ELSE offset
    /\ UNCHANGED <<phase, storage, base_address, allocs>>
    /\ UNCHANGED <<storage_live, body_calls, body_ret, result>>

\* <&Arena as Allocator>::deallocate(ptr, layout)
Deallocate(ptr, size, align) ==
    /\ phase = "body"
    /\ last' = [op |-> "deallocate", size |-> 0, align |-> 1,
                pre |-> offset, outcome |-> "Ok"]
    /\ UNCHANGED <<phase, storage, base_address, offset, allocs>>
    /\ UNCHANGED <<storage_live, body_calls, body_ret, result>>

\* the body k returns v; the temporary Arena (and its Vec) is dropped and
\* Arena::with returns the value of the call expression
Return(v) ==
    /\ phase = "body"
    /\ phase' = "returned"
    /\ body_ret' = v
    /\ storage_live' = FALSE
    /\ result' = v
    /\ UNCHANGED <<storage, base_address, offset, allocs, last, body_calls>>

\* the body k panics on its own account
BodyPanic ==
    /\ phase = "body"
    /\ phase' = "panicked"
    /\ last' = [op |-> "panic", size |-> 0, align |-> 1, pre |-> offset,
                outcome |-> "Panic"]
    /\ UNCHANGED <<storage, base_address, offset, allocs>>
    /\ UNCHANGED <<storage_live, body_calls, body_ret, result>>

\* a panic unwinds through Arena::with: the Vec is dropped, nothing is
\* returned
Unwind ==
    /\ phase = "panicked"
    /\ phase' = "unwound"
    /\ storage_live' = FALSE
    /\ UNCHANGED <<storage, base_address, offset, allocs, last>>
    /\ UNCHANGED <<body_calls, body_ret, result>>

Next ==
    \/ \E bytes \in Capacities : With(bytes)
    \/ \E size \in Sizes, align \in Aligns : Allocate(size, align)
    \/ \E ptr \in 0..MaxBytes, size \in {0, MaxBytes}, align \in Aligns :
          Deallocate(ptr, size, align)
    \/ \E v \in Values : Return(v)
    \/ BodyPanic
    \/ Unwind

Spec == Init /\ [][Next]_vars

TypeOK ==
    /\ phase \in {"idle", "body", "panicked", "returned", "unwound"}
    /\ storage_live \in BOOLEAN
    /\ body_calls \in 0..1
    /\ body_ret \in Values \cup {NoValue}
    /\ result \in Values \cup {NoValue}
    /\ Len(storage) \in Capacities
    /\ offset \in Nat
    /\ Len(allocs) <= MaxAllocs

\* ---- helpers of the properties ------------------------------------------
Max(a, b) == IF a >= b THEN a ELSE b
Min(a, b) == IF a <= b THEN a ELSE b

\* the byte range [start, start + size) a successful allocation stands for
RangeEnd(al) == al.start + al.size
Overlap(x, y) == Max(x.start, y.start) < Min(RangeEnd(x), RangeEnd(y))

\* distance from addr to the next multiple of a at or above it
PaddingTo(addr, a) == (a - (addr % a)) % a

LastIsAllocate == last.op = "allocate"

\* ---- C1 -------------------------------------------------------------------
\* C1: every successful allocate(size, a) returns a start address that is a
\* multiple of a, whatever the base address and the earlier allocations.
AllocationsAligned ==
    \A i \in DOMAIN allocs :
        (base_address + allocs[i].start) % allocs[i].align = 0

\* ---- C2 -------------------------------------------------------------------
\* C2: the byte ranges [start, start + size) of any two successful
\* allocations of one arena do not overlap.
AllocationsDisjoint ==
    \A i, j \in DOMAIN allocs : i < j => ~Overlap(allocs[i], allocs[j])

TwoNonEmptyAllocations ==
    /\ Len(allocs) >= 2
    /\ allocs[1].start > 0
    /\ \A i \in DOMAIN allocs : allocs[i].size > 0

\* ---- C3 -------------------------------------------------------------------
\* C3: the range a successful allocate(size, alignment) returns is exactly
\* size bytes long, never shorter.
ReturnedRangeExact ==
    \A i \in DOMAIN allocs : allocs[i].len = allocs[i].size

\* ---- C4 -------------------------------------------------------------------
\* C4: with padding the distance from base + offset to the next multiple of
\* the alignment, allocate succeeds exactly when padding + size fits in
\* capacity - offset, returns the range at offset + padding and advances the
\* cursor by padding + size.
AllocateAsSpecified ==
    LastIsAllocate =>
        LET padding == PaddingTo(base_address + last.pre, last.align)
            fits == padding + last.size <= Len(storage) - last.pre
        IN  /\ (last.outcome = "Ok") <=> fits
            /\ last.outcome = "Ok" =>
                  /\ allocs[Len(allocs)].start = last.pre + padding
                  /\ offset = last.pre + padding + last.size

AllocationsInBounds ==
    \A i \in DOMAIN allocs :
        /\ 0 <= allocs[i].start
        /\ RangeEnd(allocs[i]) <= Len(storage)
        /\ allocs[i].start + allocs[i].len <= Len(storage)

AllocationEndsAtCapacity ==
    \E i \in DOMAIN allocs :
        /\ allocs[i].start > 0
        /\ allocs[i].size > 0
        /\ RangeEnd(allocs[i]) = Len(storage)

\* ---- C7 -------------------------------------------------------------------
\* C7: allocate with size 0 succeeds whenever the alignment padding fits in
\* the remaining capacity, and consumes only the padding.
ZeroSizeSucceeds ==
    (LastIsAllocate /\ last.size = 0) =>
        LET padding == PaddingTo(base_address + last.pre, last.align)
        IN  padding <= Len(storage) - last.pre
            => /\ last.outcome = "Ok"
               /\ offset = last.pre + padding

\* ---- C8 -------------------------------------------------------------------
\* C8: opening a region with any capacity, 0 included, yields an arena with
\* cursor 0 over a zeroed buffer of exactly that many bytes and runs the body.
WithAnyCapacitySucceeds ==
    last.op = "with" =>
        /\ last.outcome = "Ok"
        /\ phase \in {"body", "returned"}
        /\ offset = 0
        /\ Len(storage) = last.size
        /\ \A i \in DOMAIN storage : storage[i] = 0

\* ---- C9 -------------------------------------------------------------------
\* C9: a request larger than the capacity always fails with OutOfSpace, and
\* on an unused region an allocation of exactly the capacity at alignment 1
\* made right after such a failure succeeds.
OversizeFailsThenExactFits ==
    [][ /\ (LastIsAllocate /\ last.size > Len(storage))'
            => (last.outcome = "Err")'
        /\ ( /\ LastIsAllocate /\ last.outcome = "Err"
             /\ last.size > Len(storage)
             /\ offset = 0
             /\ last'.op = "allocate"
             /\ last'.size = Len(storage) /\ last'.align = 1 )
            => /\ last'.outcome = "Ok"
               /\ offset' = Len(storage)
               /\ allocs'[Len(allocs')].start = 0
               /\ allocs'[Len(allocs')].len = Len(storage) ]_vars

OversizeRefusedOnUnusedRegion ==
    /\ phase = "body"
    /\ LastIsAllocate
    /\ last.outcome = "Err"
    /\ last.size > Len(storage)
    /\ offset = 0
    /\ allocs = <<>>

\* ---- C10 ------------------------------------------------------------------
\* C10: over any sequence of allocate and deallocate calls the cursor never
\* decreases, and each successful allocate raises it by at least size.
CursorMonotone ==
    [][ /\ offset' >= offset
        /\ Len(allocs') > Len(allocs)
            => offset' - offset >= allocs'[Len(allocs')].size ]_vars

DeallocateAfterAllocations ==
    /\ last.op = "deallocate"
    /\ Len(allocs) >= 2
    /\ offset > 0

\* ---- C11 ------------------------------------------------------------------
\* C11: a deallocate call, with any range and in any arena state, does not
\* fail and leaves the cursor, the storage, its base address and the
\* allocations made so far as they were.
DeallocateIsNoOp ==
    [][ (last'.op = "deallocate" /\ phase' = "body")
            => /\ last'.outcome = "Ok"
               /\ UNCHANGED <<phase, storage, base_address, offset, allocs,
                              storage_live>> ]_vars

DeallocateOnFullRegion ==
    /\ last.op = "deallocate"
    /\ Len(allocs) >= 1
    /\ offset = Len(storage)

\* ---- C12 ------------------------------------------------------------------
\* C12: Arena::with builds the storage, invokes the body exactly once, then
\* releases the storage; it returns the body's value unchanged, and the
\* storage is released on every exit path, a panic included.
WithRunsBodyOnceAndReleases ==
    /\ phase = "body" => (body_calls = 1 /\ storage_live)
    /\ phase = "returned" =>
          (body_calls = 1 /\ ~storage_live /\ result = body_ret
           /\ result \in Values)
    /\ phase = "unwound" => (body_calls = 1 /\ ~storage_live)

\* ---- C14 ------------------------------------------------------------------
\* C14: in every reachable state 0 <= offset <= capacity.
CursorWithinCapacity ==
    /\ 0 <= offset
    /\ offset <= Len(storage)

FailedOnFullRegion ==
    /\ LastIsAllocate
    /\ last.outcome = "Err"
    /\ Len(allocs) >= 1
    /\ Len(storage) > 0
    /\ offset = Len(storage)

\* ---- C15 ------------------------------------------------------------------
\* C15: allocate always completes with a byte range or OutOfSpace; it never
\* panics while building the returned range.
AllocateNeverPanics ==
    LastIsAllocate => last.outcome \in {"Ok", "Err"}

\* ---- C16 ------------------------------------------------------------------
\* C16: while the body runs, no allocate call (successful, failed or
\* panicking) and no deallocate call changes the base address, the length or
\* the contents of the storage, or drops it.
StorageFixed ==
    [][ (phase = "body" /\ phase' \in {"body", "panicked"})
            => /\ base_address' = base_address
               /\ storage' = storage
               /\ storage_live' = storage_live ]_vars

AllocatedAtUnalignedBase ==
    /\ phase = "body"
    /\ LastIsAllocate
    /\ last.outcome = "Ok"
    /\ last.align > 1
    /\ base_address % last.align # 0
    /\ Len(allocs) = 2

\* ---- C17 ------------------------------------------------------------------
\* C17: once a request (size, alignment) would be refused with OutOfSpace it
\* stays refused across every later allocate and deallocate call, and every
\* later allocate with that alignment and at least that size is refused.
Refused(s, a) ==
    allocate(Len(storage), base_address, offset, s, a).outcome = "Err"

IsAllocateStep ==
    /\ last'.op = "allocate"
    /\ (last' # last \/ allocs' # allocs)

ExhaustionIsPermanent ==
    [][ phase = "body" =>
          /\ (LastIsAllocate /\ last.outcome = "Err")
                => Refused(last.size, last.align)
          /\ \/ phase' # "body"
             \/ UNCHANGED <<storage, base_address, offset>>
             \/ \A s \in Sizes, a \in Aligns : Refused(s, a) => Refused(s, a)'
          /\ IsAllocateStep =>
                \A s \in 0..last'.size :
                    Refused(s, last'.align) => last'.outcome = "Err" ]_vars

RegionExhausted ==
    /\ phase = "body"
    /\ LastIsAllocate
    /\ last.outcome = "Err"
    /\ last.size = 1
    /\ last.align = 1
    /\ Len(allocs) = 2
    /\ offset = Len(storage)
====
